---------------------------- MODULE Spec2Model ----------------------------
(***************************************************************************)
(* A model of saleor/graphql/webhook/subscription_payload.py: the          *)
(* validation of a webhook's subscription query and the generation of a    *)
(* webhook payload from it.                                                *)
(*                                                                         *)
(* A query text is modelled as the sequence of its lexical tokens.  A      *)
(* Python value is a record tagged with its kind: None, a dict (a function *)
(* from keys to values) or a Promise (with the value it resolves to).      *)
(***************************************************************************)
EXTENDS Integers, Sequences, FiniteSets, TLC

VARIABLES
    \* ---- validate_subscription_query / validate_query ----
    vquery,      \* the argument `query`: None or a text
    vfn,         \* the function that was called ("" before the call)
    vresult,     \* how the call ended
    vparsed,     \* whether the call handed the text to the parser
    \* ---- generate_payload_from_subscription, one entry per call ----
    scenario,    \* "single": one call; "concurrent": two interleaved calls
    active,      \* the calls that run
    pc,          \* the line each call has reached
    query,       \* subscription_query of each call
    app,         \* app of each call (None or an App)
    reqOf,       \* the request object each call was given
    reqApp,      \* request.app of each request object
    document,    \* the parsed document of each call
    ctx,         \* the context object handed to the engine
    ctxApp,      \* context.app when execution started
    seenApp,     \* context.app as the resolvers read it while subscribed
    results,     \* what document.execute returned
    payload,     \* the list that payload.append fills
    payload_instance,
    event,       \* payload_instance.data.get("event")
    settled,     \* whether the Promise that event is has been resolved
    event_payload,
    outcome,     \* how the call ended
    log          \* the warnings logged

vvars == <<vquery, vfn, vresult, vparsed>>
gvars == <<scenario, active, pc, query, app, reqOf, reqApp, document, ctx,
           ctxApp, seenApp, results, payload, payload_instance, event,
           settled, event_payload, outcome, log>>
vars == <<vvars, gvars>>

----------------------------------------------------------------------------
(* Bounds *)

MaxChunks == 3
MaxResults == 2

----------------------------------------------------------------------------
(* Python values *)

NoneV == [kind |-> "None"]
DictV(d) == [kind |-> "dict", d |-> d]
PromiseV(v) == [kind |-> "Promise", v |-> v]

IsNone(v) == v.kind = "None"
IsDict(v) == v.kind = "dict"
IsPromise(v) == v.kind = "Promise"

Text(toks) == [kind |-> "str", toks |-> toks]

\* Python truthiness of `query`: None and "" are false.
Truthy(q) == ~IsNone(q) /\ q.toks # <<>>

----------------------------------------------------------------------------
(* The GraphQL parser behind document_from_string and parse: the top-level *)
(* grammar of a document.  Document := Definition+                         *)

Punctuators == {"{", "}", ":", "...", "<EOF>"}
OperationTypes == {"query", "mutation", "subscription"}

Tok(toks, i) == IF i <= Len(toks) THEN toks[i] ELSE "<EOF>"
IsName(t) == t \notin Punctuators

NoParse == [ok |-> FALSE, next |-> 0, keys |-> <<>>]

RECURSIVE ParseSelectionSet(_, _)
RECURSIVE ParseSelections(_, _, _)

\* Selection := "..." Name | "..." ["on" Name] SelectionSet
\*            | [Name ":"] Name [SelectionSet]
\* The result's keys is the selection's response key (alias or name).
ParseSelection(toks, i) ==
    IF Tok(toks, i) = "..."
    THEN IF IsName(Tok(toks, i + 1)) /\ Tok(toks, i + 1) # "on"
         THEN [ok |-> TRUE, next |-> i + 2, keys |-> <<"...">>]
         ELSE LET j == IF Tok(toks, i + 1) = "on" THEN i + 3 ELSE i + 1
                  s == ParseSelectionSet(toks, j)
              IN IF Tok(toks, i + 1) = "on" /\ ~IsName(Tok(toks, i + 2))
                 THEN NoParse
                 ELSE IF s.ok
                      THEN [ok |-> TRUE, next |-> s.next, keys |-> <<"...">>]
                      ELSE NoParse
    ELSE IF ~IsName(Tok(toks, i))
    THEN NoParse
    ELSE LET aliased == Tok(toks, i + 1) = ":"
             j == IF aliased THEN i + 3 ELSE i + 1
         IN IF aliased /\ ~IsName(Tok(toks, i + 2))
            THEN NoParse
            ELSE IF Tok(toks, j) = "{"
            THEN LET s == ParseSelectionSet(toks, j)
                 IN IF s.ok
                    THEN [ok |-> TRUE, next |-> s.next,
                          keys |-> <<Tok(toks, i)>>]
                    ELSE NoParse
            ELSE [ok |-> TRUE, next |-> j, keys |-> <<Tok(toks, i)>>]

\* Selection+ up to the closing brace; acc holds the keys read so far.
ParseSelections(toks, i, acc) ==
    LET s == ParseSelection(toks, i)
    IN IF ~s.ok
       THEN NoParse
       ELSE IF Tok(toks, s.next) = "}"
       THEN [ok |-> TRUE, next |-> s.next + 1, keys |-> acc \o s.keys]
       ELSE ParseSelections(toks, s.next, acc \o s.keys)

\* SelectionSet := "{" Selection+ "}"
ParseSelectionSet(toks, i) ==
    IF Tok(toks, i) = "{" THEN ParseSelections(toks, i + 1, <<>>) ELSE NoParse

OperationDefinition(op, keys) ==
    [type |-> "OperationDefinition", operation |-> op, selections |-> keys]
FragmentDefinition ==
    [type |-> "FragmentDefinition", operation |-> "", selections |-> <<>>]
TypeDefinition ==
    [type |-> "TypeDefinition", operation |-> "", selections |-> <<>>]

NoDefinition == [ok |-> FALSE, next |-> 0, def |-> FragmentDefinition]

RECURSIVE ParseFieldDefinitions(_, _)
\* (Name ":" Name)* "}" of an object type definition
ParseFieldDefinitions(toks, i) ==
    IF Tok(toks, i) = "}"
    THEN [ok |-> TRUE, next |-> i + 1, keys |-> <<>>]
    ELSE IF /\ IsName(Tok(toks, i))
            /\ Tok(toks, i + 1) = ":"
            /\ IsName(Tok(toks, i + 2))
    THEN ParseFieldDefinitions(toks, i + 3)
    ELSE NoParse

\* Definition := SelectionSet | OperationType [Name] SelectionSet
\*             | "fragment" Name "on" Name SelectionSet
\*             | "type" Name "{" FieldDefinition* "}"
ParseDefinition(toks, i) ==
    LET t == Tok(toks, i)
    IN IF t = "{"
       THEN LET s == ParseSelectionSet(toks, i)
            IN IF s.ok
               THEN [ok |-> TRUE, next |-> s.next,
                     def |-> OperationDefinition("query", s.keys)]
               ELSE NoDefinition
       ELSE IF t \in OperationTypes
       THEN LET j == IF IsName(Tok(toks, i + 1)) THEN i + 2 ELSE i + 1
                s == ParseSelectionSet(toks, j)
            IN IF s.ok
               THEN [ok |-> TRUE, next |-> s.next,
                     def |-> OperationDefinition(t, s.keys)]
               ELSE NoDefinition
       ELSE IF t = "fragment"
       THEN LET s == ParseSelectionSet(toks, i + 4)
            IN IF /\ IsName(Tok(toks, i + 1))
                  /\ Tok(toks, i + 1) # "on"
                  /\ Tok(toks, i + 2) = "on"
                  /\ IsName(Tok(toks, i + 3))
                  /\ s.ok
               THEN [ok |-> TRUE, next |-> s.next, def |-> FragmentDefinition]
               ELSE NoDefinition
       ELSE IF t = "type"
       THEN LET s == ParseFieldDefinitions(toks, i + 3)
            IN IF /\ IsName(Tok(toks, i + 1))
                  /\ Tok(toks, i + 2) = "{"
                  /\ s.ok
               THEN [ok |-> TRUE, next |-> s.next, def |-> TypeDefinition]
               ELSE NoDefinition
       ELSE NoDefinition

RECURSIVE ParseDefinitions(_, _, _)
ParseDefinitions(toks, i, acc) ==
    LET d == ParseDefinition(toks, i)
    IN IF ~d.ok
       THEN [ok |-> FALSE, definitions |-> <<>>]
       ELSE IF d.next > Len(toks)
       THEN [ok |-> TRUE, definitions |-> Append(acc, d.def)]
       ELSE ParseDefinitions(toks, d.next, Append(acc, d.def))

\* parse(text): ok is FALSE where the parser raises GraphQLSyntaxError.
Parse(toks) == ParseDefinitions(toks, 1, <<>>)

----------------------------------------------------------------------------
(* check_document_is_single_subscription *)

RECURSIVE CheckDefinitions(_, _, _)
\* The loop over document_ast.definitions from index i on; n is
\* len(subscriptions).
CheckDefinitions(defs, i, n) ==
    IF i > Len(defs)
    THEN n = 1
    ELSE IF defs[i].type = "FragmentDefinition"
    THEN CheckDefinitions(defs, i + 1, n)
    ELSE IF defs[i].type = "OperationDefinition"
    THEN IF defs[i].operation = "subscription"
         THEN IF Len(defs[i].selections) # 1
              THEN FALSE
              ELSE CheckDefinitions(defs, i + 1, n + 1)
         ELSE FALSE
    ELSE FALSE

RECURSIVE CheckDefinitionsLax(_, _, _)
\* The loop with its last line changed to `return len(subscriptions) >= 1`.
CheckDefinitionsLax(defs, i, n) ==
    IF i > Len(defs)
    THEN n >= 1
    ELSE IF defs[i].type = "FragmentDefinition"
    THEN CheckDefinitionsLax(defs, i + 1, n)
    ELSE IF defs[i].type = "OperationDefinition"
    THEN IF defs[i].operation = "subscription"
         THEN IF Len(defs[i].selections) # 1
              THEN FALSE
              ELSE CheckDefinitionsLax(defs, i + 1, n + 1)
         ELSE FALSE
    ELSE FALSE

check_document_lax(doc) ==
    CheckDefinitionsLax(doc.definitions, 1, 0)

check_document_is_single_subscription(doc) ==
    CheckDefinitions(doc.definitions, 1, 0)

\* validate_subscription_query(query), for a str
validate_subscription_query(q) ==
    LET doc == Parse(q.toks)
    IN IF ~doc.ok
       THEN FALSE
       ELSE IF ~check_document_is_single_subscription(doc)
       THEN FALSE
       ELSE TRUE

\* WebhookErrorCode.INVALID.value, as the source names it
WebhookErrorCode_INVALID == [enum |-> "WebhookErrorCode", member |-> "INVALID"]

ValidationError ==
    [field |-> "query",
     message |-> "Subscription query is not valid",
     code |-> WebhookErrorCode_INVALID]

----------------------------------------------------------------------------
(* Query texts *)

QSub == <<"subscription", "{", "event", "{", "id", "}", "}">>
QSubAlias == <<"subscription", "{", "ev", ":", "event", "{", "id", "}", "}">>
QSubNamed == <<"subscription", "S", "{", "event", "}">>
QSubSpread == <<"subscription", "{", "...", "F", "}">>
QSubTwo == <<"subscription", "{", "event", "id", "}">>
QSubNone == <<"subscription", "{", "}">>
QSubOpen == <<"subscription", "{", "event">>
QQuery == <<"query", "{", "id", "}">>
QShort == <<"{", "id", "}">>
QMutation == <<"mutation", "{", "id", "}">>
QFragment == <<"fragment", "F", "on", "T", "{", "id", "}">>
QType == <<"type", "T", "{", "id", ":", "T", "}">>

Chunks == {QSub, QSubAlias, QSubNamed, QSubSpread, QSubTwo, QSubNone,
           QSubOpen, QQuery, QShort, QMutation, QFragment, QType}

RECURSIVE Texts(_)
\* The texts made of at most n chunks; the empty text is among them.
Texts(n) ==
    IF n = 0
    THEN {<<>>}
    ELSE LET shorter == Texts(n - 1)
         IN shorter \cup {t \o c : t \in shorter, c \in Chunks}

ValidateInputs == {NoneV} \cup {Text(t) : t \in Texts(MaxChunks)}


----------------------------------------------------------------------------
(* Calling validate_subscription_query and validate_query *)

BoolV(b) == [kind |-> "bool", b |-> b]

Pending == [kind |-> "pending", value |-> NoneV, exc |-> ""]
Returned(v) == [kind |-> "returned", value |-> v, exc |-> ""]
Raised(e) == [kind |-> "raised", value |-> NoneV, exc |-> e]

\* validate_subscription_query(query) with a str: the text goes to
\* document_from_string, whose GraphQLSyntaxError is caught.
CallValidateSubscriptionQuery ==
    /\ vfn = ""
    /\ ~IsNone(vquery)
    /\ vfn' = "validate_subscription_query"
    /\ vparsed' = TRUE
    /\ vresult' = Returned(BoolV(validate_subscription_query(vquery)))
    /\ UNCHANGED <<vquery, gvars>>

\* validate_query with `if query is None` for `if not query`.
CallValidateQuery_NoneOnly ==
    /\ vfn = ""
    /\ vfn' = "validate_query"
    /\ IF IsNone(vquery)
       THEN /\ vresult' = Returned(NoneV)
            /\ vparsed' = vparsed
       ELSE /\ vparsed' = TRUE
            /\ vresult' = IF ~validate_subscription_query(vquery)
                          THEN Raised(ValidationError)
                          ELSE Returned(NoneV)
    /\ UNCHANGED <<vquery, gvars>>

\* validate_query with `if is_valid` for `if not is_valid`.
CallValidateQuery_Inverted ==
    /\ vfn = ""
    /\ vfn' = "validate_query"
    /\ IF ~Truthy(vquery)
       THEN /\ vresult' = Returned(NoneV)
            /\ vparsed' = vparsed
       ELSE /\ vparsed' = TRUE
            /\ vresult' = IF validate_subscription_query(vquery)
                          THEN Raised(ValidationError)
                          ELSE Returned(NoneV)
    /\ UNCHANGED <<vquery, gvars>>

\* validate_query(query)
CallValidateQuery ==
    /\ vfn = ""
    /\ vfn' = "validate_query"
    /\ IF ~Truthy(vquery)
       THEN /\ vresult' = Returned(NoneV)
            /\ vparsed' = vparsed
       ELSE /\ vparsed' = TRUE
            /\ vresult' = IF ~validate_subscription_query(vquery)
                          THEN Raised(ValidationError)
                          ELSE Returned(NoneV)
    /\ UNCHANGED <<vquery, gvars>>

----------------------------------------------------------------------------
(* generate_payload_from_subscription: its inputs and the engine *)

Calls == {1, 2}
Requests == {1, 2}

AppV(pk) == [kind |-> "App", pk |-> pk]
Unset == [kind |-> "unset"]

\* app_id = app.pk if app else None
AppId(a) == IF IsNone(a) THEN NoneV ELSE [kind |-> "pk", pk |-> a.pk]

ErrDenied == [type |-> "PermissionDenied", message |-> "denied"]
ErrOther == [type |-> "ValueError", message |-> "boom"]

RecognizedKinds == {"GraphQLError", "PermissionDenied"}

\* format_error(error, (GraphQLError, PermissionDenied))
format_error(error, kinds) ==
    IF error.type \in kinds
    THEN [message |-> error.message, code |-> error.type]
    ELSE [message |-> error.message]

\* [format_error(error, ...) for error in errors]
FormatErrors(errors) ==
    [i \in 1..Len(errors) |-> format_error(errors[i], RecognizedKinds)]

Event42 == DictV([id |-> "42"])
Event7 == DictV([id |-> "7"])

\* What the engine can resolve the subscribed field to.
EventValues(sc) ==
    IF sc = "single"
    THEN {NoneV, Event42, Event7, PromiseV(Event42), PromiseV(NoneV)}
    ELSE {Event42, PromiseV(Event7)}

RawErrorLists(sc) ==
    IF sc = "single"
    THEN {<<>>, <<ErrDenied>>, <<ErrDenied, ErrOther>>, <<ErrOther, ErrDenied>>}
    ELSE {<<>>, <<ErrDenied>>}

\* The error lists are paired with the values freely in one call; in two
\* interleaved calls a plain value comes without errors and a Promise
\* with one.
ErrorListsFor(sc, v) ==
    IF sc = "single"
    THEN RawErrorLists(sc)
    ELSE IF IsPromise(v) THEN {<<ErrDenied>>} ELSE {<<>>}

\* The response key of the document's subscription field: its alias or
\* name ("event" for what a fragment spread selects).
ResponseKey(doc) ==
    LET ops == {i \in 1..Len(doc.definitions) :
                   doc.definitions[i].type = "OperationDefinition"}
        key == doc.definitions[CHOOSE i \in ops : TRUE].selections[1]
    IN IF key = "..." THEN "event" ELSE key

\* One emitted ExecutionResult: data maps the response key to the value.
EmittedResults(sc, doc) ==
    UNION {{[data |-> (ResponseKey(doc) :> v), errors |-> es] :
               es \in ErrorListsFor(sc, v)} : v \in EventValues(sc)}

RECURSIVE Streams(_, _)
\* The sequences of at most n results from R.
Streams(R, n) ==
    IF n = 0
    THEN {<<>>}
    ELSE LET shorter == Streams(R, n - 1)
         IN shorter \cup {Append(s, r) : s \in shorter, r \in R}

ExecutionResultV == [kind |-> "ExecutionResult", stream |-> <<>>]
ObservableV(stream) == [kind |-> "Observable", stream |-> stream]
NoResults == [kind |-> "none", stream |-> <<>>]

\* What document.execute can return: an ExecutionResult (it has the errors
\* attribute), or, for a single-field subscription, an Observable with the
\* results it emits while subscribed.
EngineOutcomes(sc, doc) ==
    {ExecutionResultV} \cup
    IF check_document_is_single_subscription(doc)
    THEN {ObservableV(s) : s \in Streams(EmittedResults(sc, doc), MaxResults)}
    ELSE {}

\* data.get(key)
DictGet(data, key) == IF key \in DOMAIN data THEN data[key] ELSE NoneV

\* get_context_value(request): the request itself, as the context
get_context_value(request) == request

NoDocument == [ok |-> FALSE, definitions |-> <<>>]
NoInstance == [data |-> <<>>, errors |-> <<>>]

Warning(msg, q, a) == [msg |-> msg, query |-> q, app |-> AppId(a)]


----------------------------------------------------------------------------
(* generate_payload_from_subscription, call c, block by block *)

\* ast = parse(subscription_query); document = document_from_string(...)
\* A GraphQLSyntaxError of parse leaves the function.
ParseQuery(c) ==
    /\ pc[c] = "parse"
    /\ LET doc == Parse(query[c].toks)
       IN IF ~doc.ok
          THEN /\ outcome' = [outcome EXCEPT ![c] = Raised("GraphQLSyntaxError")]
               /\ pc' = [pc EXCEPT ![c] = "done"]
               /\ UNCHANGED document
          ELSE /\ document' = [document EXCEPT ![c] = doc]
               /\ pc' = [pc EXCEPT ![c] = "attach"]
               /\ UNCHANGED outcome
    /\ UNCHANGED <<vvars, scenario, active, query, app, reqOf, reqApp, ctx,
                   ctxApp, seenApp, results, payload, payload_instance, event,
                   event_payload, log,
                   settled>>

\* The app attached to one request object that every call uses.
AttachApp_Shared(c) ==
    /\ pc[c] = "attach"
    /\ reqApp' = [reqApp EXCEPT ![1] = app[c]]
    /\ pc' = [pc EXCEPT ![c] = "execute"]
    /\ UNCHANGED <<vvars, scenario, active, query, app, reqOf, document, ctx,
                   ctxApp, seenApp, results, payload, payload_instance, event,
                   event_payload, outcome, log, settled>>

\* request.app = app
AttachApp(c) ==
    /\ pc[c] = "attach"
    /\ reqApp' = [reqApp EXCEPT ![reqOf[c]] = app[c]]
    /\ pc' = [pc EXCEPT ![c] = "execute"]
    /\ UNCHANGED <<vvars, scenario, active, query, app, reqOf, document, ctx,
                   ctxApp, seenApp, results, payload, payload_instance, event,
                   event_payload, outcome, log,
                   settled>>

\* results = document.execute(..., context=get_context_value(request))
Execute(c) ==
    /\ pc[c] = "execute"
    /\ LET context == get_context_value(reqOf[c])
       IN /\ ctx' = [ctx EXCEPT ![c] = context]
          /\ ctxApp' = [ctxApp EXCEPT ![c] = reqApp[context]]
    /\ \E r \in EngineOutcomes(scenario, document[c]) :
          results' = [results EXCEPT ![c] = r]
    /\ pc' = [pc EXCEPT ![c] = "check"]
    /\ UNCHANGED <<vvars, scenario, active, query, app, reqOf, reqApp,
                   document, seenApp, payload, payload_instance, event,
                   event_payload, outcome, log,
                   settled>>

\* if hasattr(results, "errors"): logger.warning(...); return None
CheckErrors(c) ==
    /\ pc[c] = "check"
    /\ IF results[c].kind = "ExecutionResult"
       THEN /\ log' = [log EXCEPT ![c] =
                          Append(@, Warning("Unable to build a payload",
                                            query[c], app[c]))]
            /\ outcome' = [outcome EXCEPT ![c] = Returned(NoneV)]
            /\ pc' = [pc EXCEPT ![c] = "done"]
       ELSE /\ pc' = [pc EXCEPT ![c] = "subscribe"]
            /\ UNCHANGED <<log, outcome>>
    /\ UNCHANGED <<vvars, scenario, active, query, app, reqOf, reqApp,
                   document, ctx, ctxApp, seenApp, results, payload,
                   payload_instance, event, event_payload,
                   settled>>

\* payload = []; results.subscribe(payload.append): the resolvers run with
\* the context and the results emitted meanwhile are appended.
Subscribe(c) ==
    /\ pc[c] = "subscribe"
    /\ payload' = [payload EXCEPT ![c] = results[c].stream]
    /\ seenApp' = [seenApp EXCEPT ![c] = reqApp[ctx[c]]]
    /\ pc' = [pc EXCEPT ![c] = "checkempty"]
    /\ UNCHANGED <<vvars, scenario, active, query, app, reqOf, reqApp,
                   document, ctx, ctxApp, results, payload_instance, event,
                   event_payload, outcome, log,
                   settled>>

\* The empty list answered with an empty mapping: `return {}`.
CheckEmpty_EmptyMapping(c) ==
    /\ pc[c] = "checkempty"
    /\ IF payload[c] = <<>>
       THEN /\ log' = [log EXCEPT ![c] =
                          Append(@, Warning("Subscription did not return a payload.",
                                            query[c], app[c]))]
            /\ outcome' = [outcome EXCEPT ![c] = Returned(DictV(<<>>))]
            /\ pc' = [pc EXCEPT ![c] = "done"]
       ELSE /\ pc' = [pc EXCEPT ![c] = "take"]
            /\ UNCHANGED <<log, outcome>>
    /\ UNCHANGED <<vvars, scenario, active, query, app, reqOf, reqApp,
                   document, ctx, ctxApp, seenApp, results, payload,
                   payload_instance, event, event_payload, settled>>

\* if not payload: logger.warning(...); return None
CheckEmpty(c) ==
    /\ pc[c] = "checkempty"
    /\ IF payload[c] = <<>>
       THEN /\ log' = [log EXCEPT ![c] =
                          Append(@, Warning("Subscription did not return a payload.",
                                            query[c], app[c]))]
            /\ outcome' = [outcome EXCEPT ![c] = Returned(NoneV)]
            /\ pc' = [pc EXCEPT ![c] = "done"]
       ELSE /\ pc' = [pc EXCEPT ![c] = "take"]
            /\ UNCHANGED <<log, outcome>>
    /\ UNCHANGED <<vvars, scenario, active, query, app, reqOf, reqApp,
                   document, ctx, ctxApp, seenApp, results, payload,
                   payload_instance, event, event_payload,
                   settled>>

\* payload[-1]
LastOf(p) == p[Len(p)]

\* payload_instance = payload[0]
FirstOf(p) == p[1]

\* get_event_payload(event) for an event that is no Promise
get_event_payload(e) == e

\* payload_instance = payload[0]
\* event_payload = get_event_payload(payload_instance.data.get("event")),
\* up to event.get() when the event is a Promise
TakeFirst(c) ==
    /\ pc[c] = "take"
    /\ LET inst == FirstOf(payload[c])
           e == DictGet(inst.data, "event")
       IN /\ payload_instance' = [payload_instance EXCEPT ![c] = inst]
          /\ event' = [event EXCEPT ![c] = e]
          /\ IF IsPromise(e)
             THEN /\ pc' = [pc EXCEPT ![c] = "await"]
                  /\ UNCHANGED event_payload
             ELSE /\ event_payload' =
                        [event_payload EXCEPT ![c] = get_event_payload(e)]
                  /\ pc' = [pc EXCEPT ![c] = "merge"]
    /\ UNCHANGED <<vvars, scenario, active, query, app, reqOf, reqApp,
                   document, ctx, ctxApp, seenApp, results, payload, outcome,
                   log,
                   settled>>

\* The Promise that event.get() waits for is resolved.
PromiseResolves(c) ==
    /\ pc[c] = "await"
    /\ ~settled[c]
    /\ settled' = [settled EXCEPT ![c] = TRUE]
    /\ UNCHANGED <<vvars, scenario, active, pc, query, app, reqOf, reqApp,
                   document, ctx, ctxApp, seenApp, results, payload,
                   payload_instance, event, event_payload, outcome, log>>

\* The Promise itself, returned without get().
PromiseGet_Unresolved(p) == p

\* What event.get() returns once the Promise is resolved.
PromiseGet(p) == p.v

\* return event.get()
AwaitReturns(c) ==
    /\ pc[c] = "await"
    /\ settled[c]
    /\ event_payload' = [event_payload EXCEPT ![c] = PromiseGet(event[c])]
    /\ pc' = [pc EXCEPT ![c] = "merge"]
    /\ UNCHANGED <<vvars, scenario, active, query, app, reqOf, reqApp,
                   document, ctx, ctxApp, seenApp, results, payload,
                   payload_instance, event, outcome, log,
                   settled>>

\* event_payload["errors"] = errors, on a dict
SetErrors(p, errors) ==
    DictV([k \in DOMAIN p.d \cup {"errors"} |->
              IF k = "errors" THEN errors ELSE p.d[k]])

\* The errors entry set without the test `if payload_instance.errors`.
MergeErrors_AlwaysSets(c) ==
    /\ pc[c] = "merge"
    /\ outcome' = [outcome EXCEPT ![c] =
          IF IsDict(event_payload[c])
          THEN Returned(SetErrors(event_payload[c],
                                  FormatErrors(payload_instance[c].errors)))
          ELSE Raised("TypeError")]
    /\ pc' = [pc EXCEPT ![c] = "done"]
    /\ UNCHANGED <<vvars, scenario, active, query, app, reqOf, reqApp,
                   document, ctx, ctxApp, seenApp, results, payload,
                   payload_instance, event, event_payload, log, settled>>

\* if payload_instance.errors: event_payload["errors"] = [...]
\* return event_payload
\* The item assignment raises TypeError on None.
MergeErrors(c) ==
    /\ pc[c] = "merge"
    /\ outcome' = [outcome EXCEPT ![c] =
          IF payload_instance[c].errors # <<>>
          THEN IF IsDict(event_payload[c])
               THEN Returned(SetErrors(event_payload[c],
                                       FormatErrors(payload_instance[c].errors)))
               ELSE Raised("TypeError")
          ELSE Returned(event_payload[c])]
    /\ pc' = [pc EXCEPT ![c] = "done"]
    /\ UNCHANGED <<vvars, scenario, active, query, app, reqOf, reqApp,
                   document, ctx, ctxApp, seenApp, results, payload,
                   payload_instance, event, event_payload, log,
                   settled>>

\* The Observable emits one more result after the call has read the first:
\* the observer payload.append appends it.
LateEmit(c) ==
    /\ pc[c] \in {"await", "merge", "done"}
    /\ results[c].kind = "Observable"
    /\ payload[c] # <<>>
    /\ Len(payload[c]) < MaxResults
    /\ \E r \in EmittedResults(scenario, document[c]) :
          payload' = [payload EXCEPT ![c] = Append(@, r)]
    /\ UNCHANGED <<vvars, scenario, active, pc, query, app, reqOf, reqApp,
                   document, ctx, ctxApp, seenApp, results, payload_instance,
                   event, event_payload, outcome, log,
                   settled>>

----------------------------------------------------------------------------
(* Specifications *)

SingleQueries == {QSub, QSubAlias, QSubOpen, QQuery}
ConcurrentQueries == {QSub, QSubOpen}

IdleValidate ==
    /\ vquery = NoneV
    /\ vfn = "unused"
    /\ vresult = Pending
    /\ vparsed = FALSE

StartCalls ==
    /\ pc = [c \in Calls |-> IF c \in active THEN "parse" ELSE "unused"]
    /\ reqApp = [r \in Requests |-> Unset]
    /\ document = [c \in Calls |-> NoDocument]
    /\ ctx = [c \in Calls |-> c]
    /\ ctxApp = [c \in Calls |-> Unset]
    /\ seenApp = [c \in Calls |-> Unset]
    /\ results = [c \in Calls |-> NoResults]
    /\ payload = [c \in Calls |-> <<>>]
    /\ payload_instance = [c \in Calls |-> NoInstance]
    /\ event = [c \in Calls |-> NoneV]
    /\ settled = [c \in Calls |-> FALSE]
    /\ event_payload = [c \in Calls |-> NoneV]
    /\ outcome = [c \in Calls |-> Pending]
    /\ log = [c \in Calls |-> <<>>]

\* One call of generate_payload_from_subscription.
Init ==
    /\ IdleValidate
    /\ scenario = "single"
    /\ active = {1}
    /\ \E q \in SingleQueries : query = [c \in Calls |-> Text(q)]
    /\ \E a \in {NoneV, AppV("A")} : app = [c \in Calls |-> a]
    /\ reqOf = [c \in Calls |-> c]
    /\ StartCalls

\* Two calls, with apps A and B, each given one of the request objects.
InitConcurrent ==
    /\ IdleValidate
    /\ scenario = "concurrent"
    /\ active = Calls
    /\ query \in [Calls -> {Text(q) : q \in ConcurrentQueries}]
    /\ app = (1 :> AppV("A")) @@ (2 :> AppV("B"))
    /\ reqOf \in {r \in [Calls -> Requests] : r[1] = 1}
    /\ StartCalls

\* One call of validate_subscription_query or of validate_query.
InitValidate ==
    /\ vquery \in ValidateInputs
    /\ vfn = ""
    /\ vresult = Pending
    /\ vparsed = FALSE
    /\ scenario = "validate"
    /\ active = {}
    /\ query = [c \in Calls |-> NoneV]
    /\ app = [c \in Calls |-> NoneV]
    /\ reqOf = [c \in Calls |-> c]
    /\ StartCalls

Next ==
    \/ \E c \in active : ParseQuery(c)
    \/ \E c \in active : AttachApp(c)
    \/ \E c \in active : Execute(c)
    \/ \E c \in active : CheckErrors(c)
    \/ \E c \in active : Subscribe(c)
    \/ \E c \in active : CheckEmpty(c)
    \/ \E c \in active : TakeFirst(c)
    \/ \E c \in active : PromiseResolves(c)
    \/ \E c \in active : AwaitReturns(c)
    \/ \E c \in active : MergeErrors(c)
    \/ \E c \in active : LateEmit(c)

NextValidate ==
    \/ CallValidateSubscriptionQuery
    \/ CallValidateQuery

Spec == Init /\ [][Next]_vars
SpecConcurrent == InitConcurrent /\ [][Next]_vars
SpecValidate == InitValidate /\ [][NextValidate]_vars


----------------------------------------------------------------------------
(* The query validator: C1, C6, C7 (under SpecValidate) *)

\* The acceptable texts, as the data model states them: the text parses,
\* every top-level definition is a fragment or an operation, there is
\* exactly one operation, and it is a subscription with one selection.
C1_Acceptable(q) ==
    LET doc == Parse(q.toks)
        defs == doc.definitions
        ops == {i \in 1..Len(defs) : defs[i].type = "OperationDefinition"}
    IN /\ doc.ok
       /\ \A i \in 1..Len(defs) :
             defs[i].type \in {"FragmentDefinition", "OperationDefinition"}
       /\ Cardinality(ops) = 1
       /\ \A i \in ops : /\ defs[i].operation = "subscription"
                         /\ Len(defs[i].selections) = 1

\* C1: validate_subscription_query is a total predicate on texts: it
\* returns (it never raises), and it returns True exactly for the texts
\* that parse into any number of fragments plus exactly one operation, a
\* subscription with exactly one selection.
C1_ValidateIsTotalPredicate ==
    vfn = "validate_subscription_query" =>
        /\ vresult.kind = "returned"
        /\ vresult.value = BoolV(C1_Acceptable(vquery))

\* A text of a fragment and a single-field subscription was accepted.
C1_Witness ==
    /\ vfn = "validate_subscription_query"
    /\ vquery = Text(QFragment \o QSub)
    /\ vresult = Returned(BoolV(TRUE))

\* C6 as stated: validate on "" or None succeeds, whichever of the two
\* functions is the validator.
C6_EmptyQuerySucceeds ==
    (vfn \in {"validate_subscription_query", "validate_query"}
        /\ ~Truthy(vquery)) =>
        /\ vresult.kind = "returned"
        /\ vresult.value \in {NoneV, BoolV(TRUE)}

\* C6, amended: validate_query on "" or None returns without raising and
\* without handing the text to the parser; the boolean
\* validate_subscription_query does parse "" and returns False for it.
C6_EmptyQueryThroughValidateQuery ==
    ~Truthy(vquery) =>
        /\ vfn = "validate_query" => (vresult = Returned(NoneV) /\ ~vparsed)
        /\ vfn = "validate_subscription_query" =>
              (vresult = Returned(BoolV(FALSE)) /\ vparsed)

\* validate_query returned on the empty text without parsing it.
C6_Witness ==
    /\ vfn = "validate_query"
    /\ vquery = Text(<<>>)
    /\ vresult = Returned(NoneV)
    /\ ~vparsed

\* C7: validate_query raises exactly when the query is non-empty and
\* validate_subscription_query returns False; the error is scoped to field
\* "query", has code INVALID and the message "Subscription query is not
\* valid"; in every other case it returns (None).
C7_ValidateQueryRaisesIffInvalid ==
    vfn = "validate_query" =>
        /\ vresult.kind \in {"returned", "raised"}
        /\ vresult.kind = "raised" <=>
              (Truthy(vquery) /\ ~C1_Acceptable(vquery))
        /\ vresult.kind = "raised" =>
              vresult.exc = [field |-> "query",
                             message |-> "Subscription query is not valid",
                             code |-> [enum |-> "WebhookErrorCode",
                                       member |-> "INVALID"]]
        /\ vresult.kind = "returned" => vresult.value = NoneV

\* validate_query raised on a text that holds a query operation.
C7_Witness ==
    /\ vfn = "validate_query"
    /\ vquery = Text(QSub \o QQuery)
    /\ vresult.kind = "raised"


----------------------------------------------------------------------------
(* The payload executor, one call: C2, C3, C4, C5, C9, C10 (under Spec) *)

\* The call has read the first emitted result.
HasFirst(c) == pc[c] \in {"await", "merge", "done"} /\ payload[c] # <<>>

\* The first emitted result.
R1(c) == payload[c][1]

\* A value with the Promise, if it is one, replaced by what it resolves to.
Resolved(v) == IF IsPromise(v) THEN v.v ELSE v

\* The call ran a valid single-field subscription to its end and the first
\* emitted result carries no errors.
C2_Case ==
    /\ pc[1] = "done"
    /\ C1_Acceptable(query[1])
    /\ payload[1] # <<>>
    /\ R1(1).errors = <<>>

\* The selected field of the first result resolved to a mapping.
C2_ResolvedToMapping ==
    IsDict(Resolved(R1(1).data[ResponseKey(document[1])]))

\* C2 as stated: the payload holds the selected field's resolved value
\* under the selected field's name: {"event": {"id": "42"}}.
C2_PayloadUnderFieldName ==
    (C2_Case /\ C2_ResolvedToMapping) =>
        LET key == ResponseKey(document[1])
        IN outcome[1] = Returned(DictV(key :> Resolved(R1(1).data[key])))

\* C2, amended: the payload is the resolved value found under the key
\* "event" of the result's data, itself and not wrapped under the field's
\* name: {"id": "42"} for the event {id: "42"}, with no errors key; it is
\* None when the data has no "event" key (an aliased field).
C2_PayloadIsEventValue ==
    C2_Case =>
        LET data == R1(1).data
            v == IF "event" \in DOMAIN data THEN Resolved(data["event"])
                 ELSE NoneV
        IN /\ outcome[1] = Returned(v)
           /\ IsDict(v) => "errors" \notin DOMAIN v.d

\* subscription { event { id } } with the event {id: "42"} returned
\* {"id": "42"}.
C2_Witness ==
    /\ pc[1] = "done"
    /\ query[1] = Text(QSub)
    /\ payload[1] # <<>>
    /\ R1(1) = [data |-> ("event" :> Event42), errors |-> <<>>]
    /\ outcome[1] = Returned(DictV([id |-> "42"]))

\* C3: a text that cannot be parsed makes the call return None after a
\* warning; the error is not raised out of the call.
C3_ParseErrorIsSoftFailure ==
    (pc[1] = "done" /\ ~Parse(query[1].toks).ok) =>
        /\ outcome[1] = Returned(NoneV)
        /\ log[1] # <<>>

\* C4: when the first emitted result carries errors, the call returns a
\* mapping, whatever the event resolved to, whose errors entry holds one
\* normalized record per raw error, in the same order; when it carries
\* none, the returned mapping has no errors key.
C4_ErrorsAreMergedNotRaised ==
    (pc[1] = "done" /\ HasFirst(1)) =>
        LET errors == R1(1).errors
            v == outcome[1].value
        IN /\ errors # <<>> =>
                /\ outcome[1].kind = "returned"
                /\ IsDict(v)
                /\ "errors" \in DOMAIN v.d
                /\ Len(v.d["errors"]) = Len(errors)
                /\ \A i \in 1..Len(errors) :
                      v.d["errors"][i].message = errors[i].message
           /\ (errors = <<>> /\ outcome[1].kind = "returned" /\ IsDict(v)) =>
                "errors" \notin DOMAIN v.d

\* C5: an ExecutionResult (top-level errors) makes the call log a warning
\* and return None without subscribing; an Observable that emits nothing
\* makes it log a warning and return None, not an empty mapping.
C5_SoftFailures ==
    /\ results[1].kind = "ExecutionResult" =>
          /\ pc[1] \in {"check", "done"}
          /\ payload[1] = <<>>
          /\ seenApp[1] = Unset
          /\ pc[1] = "done" =>
                /\ outcome[1] = Returned(NoneV)
                /\ log[1] = <<Warning("Unable to build a payload",
                                      query[1], app[1])>>
    /\ (results[1].kind = "Observable" /\ results[1].stream = <<>>
           /\ pc[1] = "done") =>
          /\ outcome[1] = Returned(NoneV)
          /\ log[1] = <<Warning("Subscription did not return a payload.",
                                query[1], app[1])>>

\* The subscription emitted nothing and the call returned None.
C5_Witness ==
    /\ pc[1] = "done"
    /\ results[1] = ObservableV(<<>>)
    /\ outcome[1] = Returned(NoneV)
    /\ Len(log[1]) = 1

\* How a call ends that honours the result r alone.
C9_EndFor(r) ==
    LET v == Resolved(DictGet(r.data, "event"))
    IN IF r.errors = <<>>
       THEN Returned(v)
       ELSE IF IsDict(v)
            THEN Returned(DictV([k \in DOMAIN v.d \cup {"errors"} |->
                     IF k = "errors" THEN FormatErrors(r.errors) ELSE v.d[k]]))
            ELSE Raised("TypeError")

\* C9: what the call returns is determined by the first emitted result
\* alone: the results emitted after it, while subscribed or after the call
\* has read the first, never change it.
C9_OnlyFirstResult ==
    (pc[1] = "done" /\ HasFirst(1)) => outcome[1] = C9_EndFor(R1(1))

\* A second, different result was emitted and the first one was returned.
C9_Witness ==
    /\ pc[1] = "done"
    /\ Len(payload[1]) >= 2
    /\ payload[1][2].data # R1(1).data
    /\ payload[1][2].errors # R1(1).errors
    /\ outcome[1].kind = "returned"
    /\ IsDict(outcome[1].value)

----------------------------------------------------------------------------
(* Two interleaved calls: C8 (under SpecConcurrent) *)

\* Call c has handed its context to the engine.
Executed(c) == results[c].kind # "none"

\* The resolvers of call c have run.
Subscribed(c) ==
    results[c].kind = "Observable" /\ pc[c] \notin {"check", "subscribe"}

\* Every running call sees its own app: in the context it handed to the
\* engine when execution started and in the context its resolvers read.
OwnAppSeen ==
    \A c \in active :
        /\ Executed(c) => ctxApp[c] = app[c]
        /\ Subscribed(c) => seenApp[c] = app[c]

DistinctContexts ==
    \A c, d \in active : c # d => reqOf[c] # reqOf[d]

\* C8 as stated: in every interleaving of two calls, given distinct
\* contexts or the same context object, each call's engine sees that
\* call's own app.
C8_NoSharedState == OwnAppSeen

\* C8, amended: two calls given distinct context objects share no state:
\* each call's engine sees that call's own app and request.app of a call's
\* context is written by that call alone.  (Calls given the same context
\* object share request.app.)
C8_DistinctContextsIsolated ==
    DistinctContexts =>
        /\ OwnAppSeen
        /\ \A c \in active :
              reqApp[reqOf[c]] \in {Unset, app[c]}

\* Both calls, given distinct contexts, ran their resolvers, each with its
\* own app.
C8_Witness ==
    /\ DistinctContexts
    /\ active = Calls
    /\ Subscribed(1) /\ Subscribed(2)
    /\ seenApp[1] = AppV("A") /\ seenApp[2] = AppV("B")
    /\ pc[1] = "merge" /\ pc[2] = "checkempty"

============================================================================
